---- MODULE Spec2Model ----
(***************************************************************************)
(* Weekend Squeeze Scanner: the weekly TTM-squeeze evaluator               *)
(* (calculate_weekly_squeeze) and the concurrent scan orchestrator         *)
(* (scan_for_squeeze_fires) of weekend_squeeze_scanner.py.                 *)
(*                                                                         *)
(* Numbers.  Prices, deviations and ranges are integers.  The two channel  *)
(* multipliers 2.0 and 1.2 are carried as tenths (20 and 12), so every     *)
(* band value below is ten times the value the program computes; the       *)
(* comparisons of line 606 are unchanged by the common factor.  NaN is a   *)
(* reserved integer outside the range of every input; arithmetic on it     *)
(* yields NaN and every ordering comparison with it is false, as in IEEE.  *)
(*                                                                         *)
(* A bar carries the rolling statistics the program derives for it: the    *)
(* rolling mean and standard deviation of Close (NaN during the first      *)
(* bb_length-1 bars), the smoothed true range, and the regression          *)
(* momentum.  The rolling-window arithmetic that produces them is input.   *)
(* A bar also carries its Close.                                           *)
(***************************************************************************)
EXTENDS Integers, Sequences, FiniteSets, TLC

VARIABLES df, verdict,
          symbols, pc, future, fired_green, fired_red,
          ready_to_fire, in_squeeze, completed, raised,
          stock, score,
          val, sanitized, resanitized,
          mode, rpc, analysed, score_log,
          at_api, table, existing, fetch_offset, sig_idx,
          update_batch, create_batch, update_count, create_count, requests,
          push_result, week

vars == <<df, verdict, symbols, pc, future, fired_green, fired_red,
          ready_to_fire, in_squeeze, completed, raised,
          stock, score, val, sanitized, resanitized,
          mode, rpc, analysed, score_log,
          at_api, table, existing, fetch_offset, sig_idx,
          update_batch, create_batch, update_count, create_count, requests,
          push_result, week>>

pushVars == <<at_api, table, existing, fetch_offset, sig_idx,
              update_batch, create_batch, update_count, create_count,
              requests, push_result>>

reportVars == <<mode, rpc, analysed, score_log>>

sanVars == <<val, sanitized, resanitized>>

scoreVars == <<stock, score>>

calcVars == <<df, verdict, week>>

scanVars == <<symbols, pc, future, fired_green, fired_red,
              ready_to_fire, in_squeeze, completed, raised>>

-----------------------------------------------------------------------------
(* Program constants *)

bb_length == 20
kc_length == 20
mom_length == 12
BbMultX10 == 20
KcMultX10 == 12
MinExtraBars == 5
LookbackStop == 50
ReadyBars == 6
NaN == -1000000

(* Bounds of the model *)

MaxRun == 52
MaxGap == 2
MaxSymbols == 3
MaxBarsScored == 13
MaxUnits == 25

-----------------------------------------------------------------------------
(* IEEE arithmetic on possibly-undefined values *)

isna(x) == x = NaN

FAdd(a, b) == IF isna(a) \/ isna(b) THEN NaN ELSE a + b

FSub(a, b) == IF isna(a) \/ isna(b) THEN NaN ELSE a - b

FMul(c, a) == IF isna(a) THEN NaN ELSE c * a

FGt(a, b) == ~isna(a) /\ ~isna(b) /\ a > b

FLt(a, b) == ~isna(a) /\ ~isna(b) /\ a < b

Max2(a, b) == IF a >= b THEN a ELSE b

Min2(a, b) == IF a <= b THEN a ELSE b

None == [kind |-> "None"]

-----------------------------------------------------------------------------
(* calculate_weekly_squeeze *)

MinBars_mutC17 == Max2(Max2(bb_length, kc_length), mom_length)

MinBars == Max2(Max2(bb_length, kc_length), mom_length) + MinExtraBars

bb_upper(bar) == FAdd(FMul(10, bar.mid), FMul(BbMultX10, bar.std))

bb_lower(bar) == FSub(FMul(10, bar.mid), FMul(BbMultX10, bar.std))

kc_upper(bar) == FAdd(FMul(10, bar.mid), FMul(KcMultX10, bar.atr))

kc_lower(bar) == FSub(FMul(10, bar.mid), FMul(KcMultX10, bar.atr))

squeeze_on_bar_mutC23(bar) ==
    /\ FGt(bb_lower(bar), FSub(FMul(10, bar.mid), FMul(15, bar.atr)))
    /\ FLt(bb_upper(bar), FAdd(FMul(10, bar.mid), FMul(15, bar.atr)))

squeeze_on_bar_mutC24(bar) ==
    ~FLt(bb_lower(bar), kc_lower(bar)) /\ ~FGt(bb_upper(bar), kc_upper(bar))

squeeze_on_bar(bar) ==
    FGt(bb_lower(bar), kc_lower(bar)) /\ FLt(bb_upper(bar), kc_upper(bar))

squeeze_on(d) == [i \in 1..Len(d) |-> squeeze_on_bar(d[i])]

momentum(d) == [i \in 1..Len(d) |-> d[i].mom]

\* s.iloc[-i]
iloc(s, i) == s[Len(s) - i + 1]

squeeze_fired_mutC1(prev_squeeze, current_squeeze) == ~current_squeeze

squeeze_fired_mutC5(prev_squeeze, current_squeeze) == prev_squeeze

squeeze_fired_mutC28(prev_squeeze, current_squeeze) ==
    ~current_squeeze \/ prev_squeeze

squeeze_fired_of(prev_squeeze, current_squeeze) ==
    prev_squeeze /\ ~current_squeeze

start_idx_mutC6(squeeze_fired) == IF squeeze_fired THEN 1 ELSE 1

start_idx_mutC27(squeeze_fired) == IF squeeze_fired THEN 3 ELSE 1

start_idx(squeeze_fired) == IF squeeze_fired THEN 2 ELSE 1

loop_stop_mutC7(n) == Min2(LookbackStop + 1, n)

loop_stop(n) == Min2(LookbackStop, n)

\* for i in range(i, stop): if sq.iloc[-i]: bars += 1 else: break
RECURSIVE count_bars(_, _, _)
count_bars(sq, i, stop) ==
    IF i >= stop THEN 0
    ELSE IF iloc(sq, i) THEN 1 + count_bars(sq, i + 1, stop)
    ELSE 0

fire_direction_mutC9(squeeze_fired, current_mom) ==
    IF squeeze_fired
    THEN (IF ~isna(current_mom) /\ current_mom >= 0 THEN "GREEN" ELSE "RED")
    ELSE "None"

fire_direction_of(squeeze_fired, current_mom) ==
    IF squeeze_fired
    THEN (IF FGt(current_mom, 0) THEN "GREEN" ELSE "RED")
    ELSE "None"

ready_mutC8(current_squeeze, bars_in_squeeze) == bars_in_squeeze >= ReadyBars

ready_of(current_squeeze, bars_in_squeeze) ==
    current_squeeze /\ bars_in_squeeze >= ReadyBars

calculate_weekly_squeeze(d) ==
    IF d = None \/ Len(d.bars) < MinBars THEN None
    ELSE
    LET sq == squeeze_on(d.bars)
        mo == momentum(d.bars)
        current_squeeze == IF Len(sq) > 0 THEN iloc(sq, 1) ELSE FALSE
        prev_squeeze == IF Len(sq) > 1 THEN iloc(sq, 2) ELSE FALSE
        current_mom == IF Len(mo) > 0 THEN iloc(mo, 1) ELSE 0
        prev_mom == IF Len(mo) > 1 THEN iloc(mo, 2) ELSE 0
        squeeze_fired == squeeze_fired_of(prev_squeeze, current_squeeze)
        bars_in_squeeze ==
            count_bars(sq, start_idx(squeeze_fired), loop_stop(Len(sq)))
        mom_accel == IF ~isna(prev_mom) THEN FSub(current_mom, prev_mom) ELSE 0
    IN  [kind |-> "verdict",
         squeeze_on |-> current_squeeze,
         prev_squeeze |-> prev_squeeze,
         squeeze_fired |-> squeeze_fired,
         fire_direction |-> fire_direction_of(squeeze_fired, current_mom),
         momentum |-> IF ~isna(current_mom) THEN current_mom ELSE 0,
         momentum_accel |-> IF ~isna(mom_accel) THEN mom_accel ELSE 0,
         bars_in_squeeze |-> bars_in_squeeze,
         ready |-> ready_of(current_squeeze, bars_in_squeeze),
         momentum_rising |->
             IF ~isna(prev_mom) THEN FGt(current_mom, prev_mom) ELSE FALSE,
         momentum_positive |-> FGt(current_mom, 0),
         current_price |-> iloc(d.bars, 1).close,
         prev_close |-> IF Len(d.bars) > 1 THEN iloc(d.bars, 2).close ELSE 0]

-----------------------------------------------------------------------------
(* Bar series the evaluator is applied to *)

\* rolling(bb_length) statistics are NaN for the first bb_length-1 bars
WarmBar == [mid |-> NaN, std |-> NaN, atr |-> 3, mom |-> NaN, close |-> 100]

\* 2.0*std < 1.0*atr : inside the 1.0x channel
HighBar == [mid |-> 100, std |-> 1, atr |-> 3, mom |-> 0, close |-> 100]

\* 1.0*atr <= 2.0*std < 1.2*atr : inside the 1.2x channel only
MidBar == [mid |-> 100, std |-> 11, atr |-> 20, mom |-> 0, close |-> 100]

\* 1.2*atr < 2.0*std < 1.5*atr : inside the 1.5x channel only
LowBar == [mid |-> 100, std |-> 7, atr |-> 10, mom |-> 0, close |-> 100]

\* 2.0*std = 1.2*atr : the band touches the channel
EdgeBar == [mid |-> 100, std |-> 6, atr |-> 10, mom |-> 0, close |-> 100]

\* 2.0*std > 1.5*atr : expanded volatility
WideBar == [mid |-> 100, std |-> 5, atr |-> 2, mom |-> 0, close |-> 125]

\* a constant price: std = 0 and atr = 0, bands and channel on the midline
FlatBar == [mid |-> 100, std |-> 0, atr |-> 0, mom |-> 0, close |-> 100]

Repeat(bar, n) == [i \in 1..n |-> bar]

Tails == {<< >>, <<WideBar>>, <<WideBar, WideBar>>, <<WideBar, HighBar>>,
          <<LowBar>>, <<EdgeBar>>, <<MidBar>>, <<LowBar, HighBar>>,
          <<FlatBar>>}

CurMoms == {-3, 0, 4, NaN}

PrevMoms == {0, 4, NaN}

WithMoms(bars, pm, cm) ==
    [i \in 1..Len(bars) |->
        IF i = Len(bars) THEN [bars[i] EXCEPT !.mom = cm]
        ELSE IF i = Len(bars) - 1 THEN [bars[i] EXCEPT !.mom = pm]
        ELSE bars[i]]

\* warm-up, an earlier compressed stretch, a gap of `gap` expanded bars,
\* `run` compressed bars, and the closing bars `tail`
MakeBars(gap, run, runBar, tail) ==
    Repeat(WarmBar, bb_length - 1)
    \o (IF gap > 0 THEN Repeat(HighBar, 3) \o Repeat(WideBar, gap) ELSE << >>)
    \o Repeat(runBar, run) \o tail

Series ==
    {None} \cup
    {[bars |-> WithMoms(MakeBars(g, r, rb, t), pm, cm)] :
        g \in 0..MaxGap, r \in 0..MaxRun, rb \in {HighBar, MidBar},
        t \in Tails, pm \in PrevMoms, cm \in CurMoms}

-----------------------------------------------------------------------------
(* The evaluator applied to one series *)

Pending == [kind |-> "pending"]

InitCalc ==
    /\ df \in Series
    /\ verdict = Pending
    /\ week = 0

Calculate ==
    /\ verdict = Pending
    /\ verdict' = calculate_weekly_squeeze(df)
    /\ UNCHANGED <<df, week>>

-----------------------------------------------------------------------------
(* The evaluator over the weeks.  Every run reads the whole history of the   *)
(* symbol and computes the verdict from it; nothing is kept from the run of  *)
(* the week before.  A week adds one bar to the history.                     *)

\* the weeks followed after the first run
MaxWeeks == 3

\* the compressed bars at the end of the first history
WeekRuns == {4, 5, 6, 10, 47, 48, 49, 50}

WeekHistories ==
    {[bars |-> WithMoms(MakeBars(g, r, HighBar, << >>), 0, 4)] :
        g \in 0..1, r \in WeekRuns}

\* the bar a week can add
WeekBars ==
    {[b EXCEPT !.mom = m] : b \in {HighBar, LowBar, WideBar}, m \in {-3, 4}}

InitWeeks ==
    /\ df \in WeekHistories
    /\ verdict = calculate_weekly_squeeze(df)
    /\ week = 0

\* the run of the next week: the history has one more bar
NextWeek ==
    /\ week < MaxWeeks
    /\ \E bar \in WeekBars :
          /\ df' = [bars |-> Append(df.bars, bar)]
          /\ verdict' = calculate_weekly_squeeze(df')
    /\ week' = week + 1

-----------------------------------------------------------------------------
(* analyze_symbol: the per-symbol task *)

\* what fetch_weekly_data can hand back: None, or a weekly series
FetchResults ==
    {None,
     [bars |-> WithMoms(MakeBars(0, 3, HighBar, << >>), 0, 4)],
     [bars |-> WithMoms(MakeBars(1, 10, HighBar, <<WideBar>>), 0, 4)],
     [bars |-> WithMoms(MakeBars(1, 6, MidBar, <<WideBar>>), 0, 2)],
     [bars |-> WithMoms(MakeBars(1, 4, HighBar, <<WideBar>>), 0, -3)],
     [bars |-> WithMoms(MakeBars(1, 7, HighBar, <<LowBar>>), 0, 0)],
     [bars |-> WithMoms(MakeBars(0, 8, HighBar, << >>), 0, 4)],
     [bars |-> WithMoms(MakeBars(0, 7, MidBar, << >>), 0, 2)],
     [bars |-> WithMoms(MakeBars(1, 3, HighBar, << >>), 0, 4)],
     [bars |-> WithMoms(MakeBars(1, 2, HighBar, << >>), 0, -3)],
     [bars |-> WithMoms(MakeBars(1, 5, HighBar, <<WideBar, WideBar>>), 0, 4)]}

\* lines 763-766; the closes of the model make the quotient exact
weekly_change_pct_of(current_price, prev_close) ==
    IF prev_close > 0
    THEN ((current_price - prev_close) * 100) \div prev_close
    ELSE 0

analyze_symbol(symbol, fetched) ==
    IF fetched = None THEN None
    ELSE LET squeeze_data == calculate_weekly_squeeze(fetched)
         IN  IF squeeze_data = None THEN None
             ELSE [kind |-> "verdict",
                   symbol |-> symbol,
                   squeeze_on |-> squeeze_data.squeeze_on,
                   prev_squeeze |-> squeeze_data.prev_squeeze,
                   squeeze_fired |-> squeeze_data.squeeze_fired,
                   fire_direction |-> squeeze_data.fire_direction,
                   momentum |-> squeeze_data.momentum,
                   momentum_accel |-> squeeze_data.momentum_accel,
                   bars_in_squeeze |-> squeeze_data.bars_in_squeeze,
                   ready |-> squeeze_data.ready,
                   momentum_rising |-> squeeze_data.momentum_rising,
                   momentum_positive |-> squeeze_data.momentum_positive,
                   current_price |-> squeeze_data.current_price,
                   prev_close |-> squeeze_data.prev_close,
                   weekly_change_pct |->
                       weekly_change_pct_of(squeeze_data.current_price,
                                            squeeze_data.prev_close)]

\* the task ended by an exception raised outside its try block
TaskException == [kind |-> "exception"]

-----------------------------------------------------------------------------
(* scan_for_squeeze_fires *)

max_workers == 2

Universe == <<"AAA", "BBB", "CCC", "DDD", "EEE", "FFF">>

\* the symbol lists a scan is started with: distinct symbols, and one list
\* that names a symbol twice
SymbolLists ==
    {SubSeq(Universe, 1, n) : n \in 0..MaxSymbols} \cup {<<"AAA", "AAA">>}

classify_mutC4(result) ==
    IF result.squeeze_fired
    THEN (IF result.fire_direction = "GREEN" THEN "fired_green"
          ELSE "fired_red")
    ELSE IF result.squeeze_on THEN "in_squeeze"
    ELSE IF result.ready THEN "ready_to_fire"
    ELSE "none"

classify_mutC26(result) ==
    IF result.squeeze_fired
    THEN (IF result.fire_direction = "GREEN" THEN "fired_green"
          ELSE "fired_green")
    ELSE IF result.ready THEN "ready_to_fire"
    ELSE IF result.squeeze_on THEN "in_squeeze"
    ELSE "none"

\* lines 813-821: the bucket a result is appended to
classify(result) ==
    IF result.squeeze_fired
    THEN (IF result.fire_direction = "GREEN" THEN "fired_green"
          ELSE "fired_red")
    ELSE IF result.ready THEN "ready_to_fire"
    ELSE IF result.squeeze_on THEN "in_squeeze"
    ELSE "none"

drain_outcome_mutC3(result) ==
    IF result = TaskException THEN "raise"
    ELSE IF result = None THEN "continue"
    ELSE classify(result)

\* lines 808-824: what the loop body does with a completed future
drain_outcome(result) ==
    IF result = TaskException THEN "continue"
    ELSE IF result = None THEN "continue"
    ELSE classify(result)

sort_key_mutC10(x, field, reverse) ==
    IF field = "momentum" THEN x.momentum ELSE x.bars_in_squeeze

sort_key(x, field, reverse) ==
    LET k == IF field = "momentum" THEN x.momentum ELSE x.bars_in_squeeze
    IN  IF reverse THEN 0 - k ELSE k

\* x goes behind every element whose key is not larger: equal keys keep
\* their order of arrival
RECURSIVE insert_stable(_, _, _, _)
insert_stable(sorted, x, field, reverse) ==
    IF sorted = << >> THEN <<x>>
    ELSE IF sort_key(Head(sorted), field, reverse) <= sort_key(x, field, reverse)
         THEN <<Head(sorted)>> \o insert_stable(Tail(sorted), x, field, reverse)
         ELSE <<x>> \o sorted

RECURSIVE stable_sort(_, _, _)
stable_sort(lst, field, reverse) ==
    IF lst = << >> THEN << >>
    ELSE insert_stable(stable_sort(SubSeq(lst, 1, Len(lst) - 1), field, reverse),
                       lst[Len(lst)], field, reverse)

list_sort_mutC2(lst, field, reverse) == lst

\* list.sort(key=..., reverse=...)
list_sort(lst, field, reverse) == stable_sort(lst, field, reverse)

NewFuture == [state |-> "queued", result |-> Pending, drained |-> FALSE]

InitScan ==
    /\ symbols \in SymbolLists
    /\ pc = "submit"
    /\ future = << >>
    /\ fired_green = << >>
    /\ fired_red = << >>
    /\ ready_to_fire = << >>
    /\ in_squeeze = << >>
    /\ completed = 0
    /\ raised = FALSE

Running == {i \in 1..Len(future) : future[i].state = "running"}

\* executor.submit(analyze_symbol, sym), one symbol after the other
Submit ==
    /\ pc = "submit"
    /\ Len(future) < Len(symbols)
    /\ future' = Append(future, NewFuture)
    /\ UNCHANGED <<symbols, pc, fired_green, fired_red, ready_to_fire,
                   in_squeeze, completed, raised>>

\* the dict of futures is built: the as_completed loop begins
BeginDrain ==
    /\ pc = "submit"
    /\ Len(future) = Len(symbols)
    /\ pc' = "drain"
    /\ UNCHANGED <<symbols, future, fired_green, fired_red, ready_to_fire,
                   in_squeeze, completed, raised>>

\* a free worker takes the oldest queued task
TaskStart(i) ==
    /\ future[i].state = "queued"
    /\ \A j \in 1..(i - 1) : future[j].state # "queued"
    /\ Cardinality(Running) < max_workers
    /\ future' = [future EXCEPT ![i].state = "running"]
    /\ UNCHANGED <<symbols, pc, fired_green, fired_red, ready_to_fire,
                   in_squeeze, completed, raised>>

TaskFinish_mutC15(i) ==
    /\ future[i].state = "running"
    /\ \E fetched \in FetchResults :
          LET result == analyze_symbol(symbols[i], fetched)
          IN  /\ future' = [future EXCEPT ![i].state = "done",
                                          ![i].result = result]
              /\ in_squeeze' = IF result.kind = "verdict" /\ result.squeeze_on
                               THEN Append(in_squeeze, result) ELSE in_squeeze
    /\ UNCHANGED <<symbols, pc, fired_green, fired_red, ready_to_fire,
                   completed, raised>>

\* analyze_symbol returns
TaskFinish(i) ==
    /\ future[i].state = "running"
    /\ \E fetched \in FetchResults :
          future' = [future EXCEPT ![i].state = "done",
                        ![i].result = analyze_symbol(symbols[i], fetched)]
    /\ UNCHANGED <<symbols, pc, fired_green, fired_red, ready_to_fire,
                   in_squeeze, completed, raised>>

\* analyze_symbol ends by an exception
TaskRaise(i) ==
    /\ future[i].state = "running"
    /\ future' = [future EXCEPT ![i].state = "done", ![i].result = TaskException]
    /\ UNCHANGED <<symbols, pc, fired_green, fired_red, ready_to_fire,
                   in_squeeze, completed, raised>>

\* one iteration of `for future in as_completed(futures)`
Drain(i) ==
    /\ pc = "drain"
    /\ future[i].state = "done"
    /\ ~future[i].drained
    /\ LET result == future[i].result
           bucket == drain_outcome(result)
       IN  /\ completed' = completed + 1
           /\ future' = [future EXCEPT ![i].drained = TRUE]
           /\ fired_green' = IF bucket = "fired_green"
                             THEN Append(fired_green, result) ELSE fired_green
           /\ fired_red' = IF bucket = "fired_red"
                           THEN Append(fired_red, result) ELSE fired_red
           /\ ready_to_fire' = IF bucket = "ready_to_fire"
                               THEN Append(ready_to_fire, result)
                               ELSE ready_to_fire
           /\ in_squeeze' = IF bucket = "in_squeeze"
                            THEN Append(in_squeeze, result) ELSE in_squeeze
           /\ raised' = (bucket = "raise")
           /\ pc' = IF bucket = "raise" THEN "done" ELSE pc
    /\ UNCHANGED symbols

SortAndReturn_mutC25 ==
    /\ pc = "drain"
    /\ \E i \in 1..Len(future) : future[i].drained
    /\ fired_green' = list_sort(fired_green, "momentum", TRUE)
    /\ fired_red' = list_sort(fired_red, "momentum", FALSE)
    /\ ready_to_fire' = list_sort(ready_to_fire, "bars_in_squeeze", TRUE)
    /\ in_squeeze' = list_sort(in_squeeze, "momentum", TRUE)
    /\ pc' = "done"
    /\ UNCHANGED <<symbols, future, completed, raised>>

\* as_completed is exhausted: the four sorts and the return
SortAndReturn ==
    /\ pc = "drain"
    /\ \A i \in 1..Len(future) : future[i].drained
    /\ fired_green' = list_sort(fired_green, "momentum", TRUE)
    /\ fired_red' = list_sort(fired_red, "momentum", FALSE)
    /\ ready_to_fire' = list_sort(ready_to_fire, "bars_in_squeeze", TRUE)
    /\ in_squeeze' = list_sort(in_squeeze, "momentum", TRUE)
    /\ pc' = "done"
    /\ UNCHANGED <<symbols, future, completed, raised>>

-----------------------------------------------------------------------------
(* calculate_sunday_score.  Scores are carried in thirds of a point, which *)
(* makes every quotient of the four sub-scores exact on integer inputs.    *)

ScoreScale == 3

Abs(x) == IF x < 0 THEN 0 - x ELSE x

mom_score_mutC11(s) == (Abs(s.momentum) * 40 * ScoreScale) \div 30

\* min(abs(stock['momentum']) / 30 * 40, 40)
mom_score(s) ==
    Min2((Abs(s.momentum) * 40 * ScoreScale) \div 30, 40 * ScoreScale)

accel_score_mutC12(s) ==
    Min2((s.momentum_accel * 20 * ScoreScale) \div 5, 20 * ScoreScale)

\* min(max(stock['momentum_accel'], 0) / 5 * 20, 20)
accel_score(s) ==
    Min2((Max2(s.momentum_accel, 0) * 20 * ScoreScale) \div 5, 20 * ScoreScale)

\* min(stock['bars_in_squeeze'] / 12 * 20, 20)
bars_score(s) ==
    Min2((s.bars_in_squeeze * 20 * ScoreScale) \div 12, 20 * ScoreScale)

\* min(abs(stock['weekly_change_pct']) / 10 * 20, 20)
weekly_score(s) ==
    Min2((Abs(s.weekly_change_pct) * 20 * ScoreScale) \div 10, 20 * ScoreScale)

calculate_sunday_score(s) ==
    mom_score(s) + accel_score(s) + bars_score(s) + weekly_score(s)

ScoreMoms == {-35, -30, -29, -15, 0, 1, 29, 30, 35}

ScoreAccels == {-6, -1, 0, 1, 4, 5, 6}

ScoreWeekly == {-12, -10, -9, 0, 5, 10, 12}

Stocks ==
    [momentum : ScoreMoms, momentum_accel : ScoreAccels,
     bars_in_squeeze : 0..MaxBarsScored, weekly_change_pct : ScoreWeekly]

NoStock == [kind |-> "none"]

NoScore == [kind |-> "none"]

InitScore ==
    /\ stock \in Stocks
    /\ score = NoScore

Score ==
    /\ score = NoScore
    /\ score' = [kind |-> "score", value |-> calculate_sunday_score(stock)]
    /\ UNCHANGED stock

-----------------------------------------------------------------------------
(* sanitize_number.  A Python value is None, a float (finite, NaN or an    *)
(* infinity), an int, a str, or an object of another type.  Finite numbers *)
(* are carried in units of 0.00001, so that rounding to 4 decimal places   *)
(* is rounding to a multiple of 10 units.                                  *)

UnitsPerOne == 100000

PyNone == [t |-> "none"]

PyFloat(units) == [t |-> "float", k |-> "fin", v |-> units]

PyNaN == [t |-> "float", k |-> "nan", v |-> 0]

PyInf == [t |-> "float", k |-> "inf", v |-> 0]

PyNegInf == [t |-> "float", k |-> "ninf", v |-> 0]

PyInt(n) == [t |-> "int", k |-> "fin", v |-> n * UnitsPerOne]

PyStr(text) == [t |-> "str", s |-> text]

PyOther == [t |-> "other"]

ValueError == [t |-> "ValueError"]

\* float(val) for a str: the literal's value, or ValueError
float_of_str(text) ==
    CASE text = "1.5" -> PyFloat(150000)
      [] text = "1.23456" -> PyFloat(123456)
      [] text = " 2 " -> PyFloat(200000)
      [] text = "-0.00004" -> PyFloat(-4)
      [] text = "nan" -> PyNaN
      [] text = "NaN" -> PyNaN
      [] text = "inf" -> PyInf
      [] text = "-Infinity" -> PyNegInf
      [] text = "1e400" -> PyInf
      [] OTHER -> ValueError

\* round(x, 4): the nearest multiple of 10 units, an exact tie to the even one
round4(units) ==
    LET r == units % 10
        down == units - r
        up == down + 10
    IN  IF r = 0 THEN units
        ELSE IF r < 5 THEN down
        ELSE IF r > 5 THEN up
        ELSE IF (down \div 10) % 2 = 0 THEN down ELSE up

np_isnan(x) == x.k = "nan"

np_isinf(x) == x.k \in {"inf", "ninf"}

sanitize_number(x) ==
    IF x.t = "none" THEN PyFloat(0)
    ELSE IF x.t = "str"
         THEN (IF float_of_str(x.s) = ValueError THEN PyFloat(0)
               ELSE float_of_str(x.s))
    ELSE IF x.t \in {"int", "float"}
         THEN (IF np_isnan(x) \/ np_isinf(x) THEN PyFloat(0)
               ELSE PyFloat(round4(x.v)))
    ELSE PyFloat(0)

SanitizeStrings ==
    {"1.5", "1.23456", " 2 ", "-0.00004", "nan", "NaN", "inf", "-Infinity",
     "1e400", "abc", ""}

SanitizeInputs ==
    {PyNone, PyNaN, PyInf, PyNegInf, PyOther}
    \cup {PyFloat(u) : u \in (0 - MaxUnits)..MaxUnits}
    \cup {PyFloat(u) : u \in {123456, 4666667, 10000000}}
    \cup {PyInt(n) : n \in {-3, 0, 10, 49}}
    \cup {PyStr(text) : text \in SanitizeStrings}

NotSanitized == [t |-> "pending"]

InitSanitize ==
    /\ val \in SanitizeInputs
    /\ sanitized = NotSanitized
    /\ resanitized = NotSanitized

Sanitize ==
    /\ sanitized = NotSanitized
    /\ sanitized' = sanitize_number(val)
    /\ UNCHANGED <<val, resanitized>>

\* the sanitized value is sanitized once more
SanitizeAgain ==
    /\ sanitized # NotSanitized
    /\ resanitized = NotSanitized
    /\ resanitized' = sanitize_number(sanitized)
    /\ UNCHANGED <<val, sanitized>>

IdleSanitize ==
    /\ val = PyNone
    /\ sanitized = NotSanitized
    /\ resanitized = NotSanitized

-----------------------------------------------------------------------------
(* The consumers of a scan: main() with the Sunday rankings and the Airtable *)
(* push, run_scan_and_email, and the single-stock analysis.  A verdict is a  *)
(* Python dict; the key 'sunday_score' is present in it once a consumer has  *)
(* stored a score, and the lists hold the dicts themselves, so a score       *)
(* stored through one list is seen through every later use of that list.     *)

AIRTABLE_BATCH_SIZE == 10

\* the tasks of a reported scan, and the records of one page of the table
\* (100 in the program)
MaxReported == 2
PageSize == 2

has_score(x) == "sunday_score" \in DOMAIN x

\* stock['sunday_score'] = calculate_sunday_score(stock)
set_score(x) ==
    [f \in DOMAIN x \cup {"sunday_score"} |->
        IF f = "sunday_score" THEN calculate_sunday_score(x) ELSE x[f]]

\* if 'sunday_score' not in stock: stock['sunday_score'] = ...
set_score_if_absent(x) == IF has_score(x) THEN x ELSE set_score(x)

\* one computation of a score: where, for which verdict, and whether the
\* value was stored in the verdict
ScoreEvent(site, x, value, attached) ==
    [site |-> site, symbol |-> x.symbol, bucket |-> classify(x),
     squeeze_fired |-> x.squeeze_fired, fire_direction |-> x.fire_direction,
     value |-> value, attached |-> attached]

\* the weekly series the reported scans read
ReportFetches ==
    {None,
     [bars |-> WithMoms(MakeBars(1, 10, HighBar, <<WideBar>>), 0, 4)],
     [bars |-> WithMoms(MakeBars(1, 6, MidBar, <<WideBar>>), 0, 2)],
     [bars |-> WithMoms(MakeBars(1, 4, HighBar, <<WideBar>>), 0, -3)],
     [bars |-> WithMoms(MakeBars(0, 8, HighBar, << >>), 0, 4)]}

ReportSymbolLists == {SubSeq(Universe, 1, n) : n \in 0..MaxReported}

Modes ==
    {[prog |-> "main", sunday |-> s, no_airtable |-> n] :
        s \in BOOLEAN, n \in BOOLEAN}
    \cup {[prog |-> "email"], [prog |-> "single"]}

NoMode == [prog |-> "none"]

scan_for_squeeze_fires_mutC14(drained) ==
    LET bucket(name) == SelectSeq(drained, LAMBDA r : drain_outcome(r) = name)
        green == list_sort(bucket("fired_green"), "momentum", TRUE)
    IN  [fired_green |-> [k \in 1..Len(green) |-> set_score(green[k])],
         fired_red |-> list_sort(bucket("fired_red"), "momentum", FALSE),
         ready_to_fire |->
             list_sort(bucket("ready_to_fire"), "bars_in_squeeze", TRUE),
         in_squeeze |-> list_sort(bucket("in_squeeze"), "momentum", TRUE)]

\* one call of scan_for_squeeze_fires: `drained` holds the results of the
\* tasks in the order as_completed yields them
scan_for_squeeze_fires(drained) ==
    LET bucket(name) == SelectSeq(drained, LAMBDA r : drain_outcome(r) = name)
    IN  [fired_green |-> list_sort(bucket("fired_green"), "momentum", TRUE),
         fired_red |-> list_sort(bucket("fired_red"), "momentum", FALSE),
         ready_to_fire |->
             list_sort(bucket("ready_to_fire"), "bars_in_squeeze", TRUE),
         in_squeeze |-> list_sort(bucket("in_squeeze"), "momentum", TRUE)]

InitReport ==
    /\ mode \in Modes
    /\ rpc = "start"
    /\ analysed = 0
    /\ score_log = {}
    /\ symbols \in ReportSymbolLists
    /\ pc = "idle"
    /\ future = << >>
    /\ fired_green = << >>
    /\ fired_red = << >>
    /\ ready_to_fire = << >>
    /\ in_squeeze = << >>
    /\ completed = 0
    /\ raised = FALSE

\* main, line 1245, and run_scan_and_email, line 231
RunScan ==
    /\ rpc = "start"
    /\ mode.prog \in {"main", "email"}
    /\ \E fetched \in [1..Len(symbols) -> ReportFetches],
          order \in Permutations(1..Len(symbols)) :
          LET drained == [k \in 1..Len(symbols) |->
                             analyze_symbol(symbols[order[k]],
                                            fetched[order[k]])]
              ret == scan_for_squeeze_fires(drained)
          IN  /\ fired_green' = ret.fired_green
              /\ fired_red' = ret.fired_red
              /\ ready_to_fire' = ret.ready_to_fire
              /\ in_squeeze' = ret.in_squeeze
    /\ completed' = Len(symbols)
    /\ rpc' = "scanned"
    /\ UNCHANGED <<mode, analysed, score_log, symbols, pc, future, raised>>

\* main, lines 1253-1254: print_sunday_rankings stores a score in every
\* element of fired_green
Rankings ==
    /\ rpc = "scanned"
    /\ mode.prog = "main"
    /\ mode.sunday
    /\ fired_green # << >>
    /\ fired_green' = [k \in 1..Len(fired_green) |-> set_score(fired_green[k])]
    /\ score_log' = score_log \cup
          {ScoreEvent("rankings", fired_green[k],
                      calculate_sunday_score(fired_green[k]), TRUE) :
              k \in 1..Len(fired_green)}
    /\ rpc' = "ranked"
    /\ UNCHANGED <<mode, analysed, symbols, pc, future, fired_red,
                   ready_to_fire, in_squeeze, completed, raised>>

\* main without --sunday, or with nothing to rank
NoRankings ==
    /\ rpc = "scanned"
    /\ mode.prog = "main"
    /\ ~(mode.sunday /\ fired_green # << >>)
    /\ rpc' = "ranked"
    /\ UNCHANGED <<mode, analysed, score_log, scanVars>>

\* main with --no-airtable
NoAirtable ==
    /\ rpc = "ranked"
    /\ mode.no_airtable
    /\ rpc' = "done"
    /\ UNCHANGED <<mode, analysed, score_log, scanVars>>

\* run_scan_and_email, lines 239-242, before the mail is formatted and sent
EmailScores ==
    /\ rpc = "scanned"
    /\ mode.prog = "email"
    /\ fired_green' = [k \in 1..Len(fired_green) |->
                          set_score_if_absent(fired_green[k])]
    /\ score_log' = score_log \cup
          {ScoreEvent("email", fired_green[k],
                      calculate_sunday_score(fired_green[k]), TRUE) :
              k \in {j \in 1..Len(fired_green) : ~has_score(fired_green[j])}}
    /\ rpc' = "done"
    /\ UNCHANGED <<mode, analysed, symbols, pc, future, fired_red,
                   ready_to_fire, in_squeeze, completed, raised>>

\* print_single_stock_analysis, line 1121: the guard of the score block
inline_score_shown(result) == result.squeeze_fired

\* lines 1123-1127
inline_sunday_score(result) ==
    mom_score(result) + accel_score(result) + bars_score(result)
    + weekly_score(result)

\* main, single-stock mode: analyze_symbol and print_single_stock_analysis
\* for the next symbol
SingleStock ==
    /\ rpc = "start"
    /\ mode.prog = "single"
    /\ analysed < Len(symbols)
    /\ \E fetched \in ReportFetches :
          LET result == analyze_symbol(symbols[analysed + 1], fetched)
          IN  score_log' =
                  IF result # None /\ inline_score_shown(result)
                  THEN score_log \cup
                       {ScoreEvent("single", result,
                                   inline_sunday_score(result), FALSE)}
                  ELSE score_log
    /\ analysed' = analysed + 1
    /\ UNCHANGED <<mode, rpc, scanVars>>

\* the loop over the requested symbols is over: main returns
SingleDone ==
    /\ rpc = "start"
    /\ mode.prog = "single"
    /\ analysed = Len(symbols)
    /\ rpc' = "done"
    /\ UNCHANGED <<mode, analysed, score_log, scanVars>>

IdleReport ==
    /\ mode = NoMode
    /\ rpc = "idle"
    /\ analysed = 0
    /\ score_log = {}

-----------------------------------------------------------------------------
(* push_squeeze_signals_to_airtable.  The table is the sequence of its rows, *)
(* each with a record id and the text of its Ticker field; a request is      *)
(* logged with the tickers it carries, its outcome, and the tickers that had *)
(* a row in the table when it was sent.                                      *)

\* str.upper() on the tickers of the model
upper(t) ==
    CASE t = "aaa" -> "AAA"
      [] t = "bbb" -> "BBB"
      [] OTHER -> t

MakeTable(tickers) ==
    [i \in 1..Len(tickers) |-> [id |-> i, ticker |-> tickers[i]]]

\* the tables a push can meet: empty, one row, and three rows (two pages) of
\* which one has no Ticker and one a lower-case Ticker
InitialTables ==
    {MakeTable(<< >>), MakeTable(<<"AAA">>), MakeTable(<<"bbb", "", "AAA">>)}

rows_of(t) == {upper(t[i].ticker) : i \in 1..Len(t)} \ {""}

EmptyMap == [t \in {} |-> 0]

\* records_map[ticker] = {"id": rec["id"], ...}
map_put(map, key, value) ==
    [k \in DOMAIN map \cup {key} |-> IF k = key THEN value ELSE map[k]]

\* lines 149-155: the records of one page enter the map under their
\* upper-cased ticker; a record with an empty ticker is passed over
RECURSIVE add_records(_, _)
add_records(map, recs) ==
    IF recs = << >> THEN map
    ELSE LET ticker == upper(Head(recs).ticker)
         IN  add_records(IF ticker # ""
                         THEN map_put(map, ticker, Head(recs).id)
                         ELSE map,
                         Tail(recs))

page_records(offset) ==
    SubSeq(table, offset + 1, Min2(offset + PageSize, Len(table)))

\* lines 191-194
mark_signal(x) ==
    [f \in DOMAIN x \cup {"squeeze_status", "signal"} |->
        IF f = "squeeze_status" THEN "FIRED_GREEN"
        ELSE IF f = "signal" THEN "BUY"
        ELSE x[f]]

Request(method, batch, ok, tbl) ==
    [method |-> method,
     tickers |-> [j \in 1..Len(batch) |-> batch[j].Ticker],
     ok |-> ok,
     present |-> rows_of(tbl)]

sent_mutC30(method, batch, ok, tbl) ==
    IF Len(batch) <= 1 THEN << >> ELSE <<Request(method, batch, ok, tbl)>>

\* _process_airtable_batch: the request leaves unless the batch is empty
sent(method, batch, ok, tbl) ==
    IF batch = << >> THEN << >> ELSE <<Request(method, batch, ok, tbl)>>

\* the table after the request: an accepted POST adds one row per record
table_after(method, batch, ok, tbl) ==
    IF method = "POST" /\ ok
    THEN tbl \o [j \in 1..Len(batch) |->
                    [id |-> Len(tbl) + j, ticker |-> batch[j].Ticker]]
    ELSE tbl

InitPush ==
    /\ at_api \in BOOLEAN
    /\ table \in InitialTables
    /\ existing = EmptyMap
    /\ fetch_offset = 0
    /\ sig_idx = 0
    /\ update_batch = << >>
    /\ create_batch = << >>
    /\ update_count = 0
    /\ create_count = 0
    /\ requests = << >>
    /\ push_result = Pending

\* main, lines 1265-1266, and lines 179-181: without AT_API nothing is sent
PushBegin ==
    /\ rpc = "ranked"
    /\ ~mode.no_airtable
    /\ rpc' = IF at_api THEN "fetch" ELSE "done"
    /\ push_result' = IF at_api THEN push_result ELSE None
    /\ existing' = EmptyMap
    /\ fetch_offset' = 0
    /\ UNCHANGED <<mode, analysed, score_log, scanVars, at_api, table, sig_idx,
                   update_batch, create_batch, update_count, create_count,
                   requests>>

\* fetch_airtable_records: one GET.  A status other than 200 or an exception
\* ends the loop with the map built so far; the last page is followed by
\* lines 188-201 of the push
FetchPage ==
    /\ rpc = "fetch"
    /\ \E ok \in BOOLEAN :
          LET more == fetch_offset + PageSize < Len(table)
          IN  /\ existing' = IF ok
                             THEN add_records(existing,
                                              page_records(fetch_offset))
                             ELSE existing
              /\ IF ok /\ more
                 THEN /\ fetch_offset' = fetch_offset + PageSize
                      /\ rpc' = "fetch"
                      /\ UNCHANGED fired_green
                 ELSE /\ fetch_offset' = fetch_offset
                      /\ rpc' = "signals"
                      /\ fired_green' = [k \in 1..Len(fired_green) |->
                                            mark_signal(fired_green[k])]
    /\ sig_idx' = 0
    /\ update_batch' = << >>
    /\ create_batch' = << >>
    /\ update_count' = 0
    /\ create_count' = 0
    /\ UNCHANGED <<mode, analysed, score_log, symbols, pc, future, fired_red,
                   ready_to_fire, in_squeeze, completed, raised, at_api,
                   table, requests, push_result>>

all_signals_mutC22(fg, fr, rtf, isq) == fg \o fr

\* lines 188-196: the signals are the elements of fired_green, the other
\* three buckets are passed in and left aside
all_signals(fg, fr, rtf, isq) == fg

signals == all_signals(fired_green, fired_red, ready_to_fire, in_squeeze)

\* lines 203-252: one iteration of `for stock in all_signals`
PushSignal ==
    /\ rpc = "signals"
    /\ sig_idx < Len(signals)
    /\ LET x == signals[sig_idx + 1]
           sym == upper(x.symbol)
           ub == IF sym \in DOMAIN existing
                 THEN Append(update_batch, [id |-> existing[sym], Ticker |-> sym])
                 ELSE update_batch
           cb == IF sym \in DOMAIN existing
                 THEN create_batch
                 ELSE Append(create_batch, [Ticker |-> sym])
           flushU == Len(ub) >= AIRTABLE_BATCH_SIZE
           flushC == Len(cb) >= AIRTABLE_BATCH_SIZE
       IN  /\ fired_green' = [fired_green EXCEPT
                                 ![sig_idx + 1] = set_score_if_absent(x)]
           /\ score_log' = IF has_score(x) THEN score_log
                           ELSE score_log \cup
                                {ScoreEvent("push", x,
                                            calculate_sunday_score(x), TRUE)}
           /\ \E okU \in BOOLEAN, okC \in BOOLEAN :
                 LET t1 == IF flushU THEN table_after("PATCH", ub, okU, table)
                           ELSE table
                 IN  /\ requests' = requests
                            \o (IF flushU THEN sent("PATCH", ub, okU, table)
                                ELSE << >>)
                            \o (IF flushC THEN sent("POST", cb, okC, t1)
                                ELSE << >>)
                     /\ table' = IF flushC
                                 THEN table_after("POST", cb, okC, t1) ELSE t1
           /\ update_batch' = IF flushU THEN << >> ELSE ub
           /\ create_batch' = IF flushC THEN << >> ELSE cb
           /\ update_count' = IF flushU THEN update_count + Len(ub)
                              ELSE update_count
           /\ create_count' = IF flushC THEN create_count + Len(cb)
                              ELSE create_count
    /\ sig_idx' = sig_idx + 1
    /\ UNCHANGED <<mode, rpc, analysed, symbols, pc, future, fired_red,
                   ready_to_fire, in_squeeze, completed, raised, at_api,
                   existing, fetch_offset, push_result>>

\* lines 254-264: the batches left over are sent, updates first
PushRemaining ==
    /\ rpc = "signals"
    /\ sig_idx = Len(signals)
    /\ \E okU \in BOOLEAN, okC \in BOOLEAN :
          LET t1 == table_after("PATCH", update_batch, okU, table)
          IN  /\ requests' = requests
                     \o sent("PATCH", update_batch, okU, table)
                     \o sent("POST", create_batch, okC, t1)
              /\ table' = IF create_batch = << >> THEN t1
                          ELSE table_after("POST", create_batch, okC, t1)
    /\ update_count' = update_count + Len(update_batch)
    /\ create_count' = create_count + Len(create_batch)
    /\ push_result' = None
    /\ rpc' = "done"
    /\ UNCHANGED <<mode, analysed, score_log, scanVars, at_api, existing,
                   fetch_offset, sig_idx, update_batch, create_batch>>

\* the GREEN fires of the pushes checked for batching: more than one
\* batch of AIRTABLE_BATCH_SIZE needs more than that many signals
MaxSignals == 11

PushUniverse ==
    <<"S01", "S02", "S03", "S04", "S05", "S06", "S07", "S08", "S09", "S10",
      "S11", "S12", "S13">>

GreenFire(sym) ==
    analyze_symbol(sym, [bars |-> WithMoms(MakeBars(1, 10, HighBar, <<WideBar>>),
                                           0, 4)])

PushLists ==
    {[k \in 1..n |-> GreenFire(PushUniverse[k])] : n \in 0..MaxSignals}

\* no row, a row for every symbol, a row for every second symbol
PushTables ==
    {MakeTable(<< >>),
     MakeTable(PushUniverse),
     MakeTable([k \in 1..6 |-> PushUniverse[2 * k]])}

\* main has scanned and calls the push
InitPushOnly ==
    /\ mode = [prog |-> "main", sunday |-> FALSE, no_airtable |-> FALSE]
    /\ rpc = "ranked"
    /\ analysed = 0
    /\ score_log = {}
    /\ fired_green \in PushLists
    /\ symbols = [k \in 1..Len(fired_green) |-> fired_green[k].symbol]
    /\ pc = "idle"
    /\ future = << >>
    /\ fired_red = << >>
    /\ ready_to_fire = << >>
    /\ in_squeeze = << >>
    /\ completed = Len(symbols)
    /\ raised = FALSE
    /\ at_api \in BOOLEAN
    /\ table \in PushTables
    /\ existing = EmptyMap
    /\ fetch_offset = 0
    /\ sig_idx = 0
    /\ update_batch = << >>
    /\ create_batch = << >>
    /\ update_count = 0
    /\ create_count = 0
    /\ requests = << >>
    /\ push_result = Pending

IdlePush ==
    /\ at_api = FALSE
    /\ table = << >>
    /\ existing = EmptyMap
    /\ fetch_offset = 0
    /\ sig_idx = 0
    /\ update_batch = << >>
    /\ create_batch = << >>
    /\ update_count = 0
    /\ create_count = 0
    /\ requests = << >>
    /\ push_result = Pending

-----------------------------------------------------------------------------
(* Specifications *)

IdleScan ==
    /\ symbols = << >>
    /\ pc = "idle"
    /\ future = << >>
    /\ fired_green = << >>
    /\ fired_red = << >>
    /\ ready_to_fire = << >>
    /\ in_squeeze = << >>
    /\ completed = 0
    /\ raised = FALSE

IdleCalc ==
    /\ df = None
    /\ verdict = Pending
    /\ week = 0

IdleScore ==
    /\ stock = NoStock
    /\ score = NoScore

Init ==
    /\ InitScan
    /\ IdleCalc
    /\ IdleScore
    /\ IdleSanitize
    /\ IdleReport
    /\ IdlePush

Next ==
    \/ Submit /\ UNCHANGED <<calcVars, scoreVars, sanVars, reportVars, pushVars>>
    \/ BeginDrain /\ UNCHANGED <<calcVars, scoreVars, sanVars, reportVars, pushVars>>
    \/ \E i \in 1..Len(future) :
          TaskStart(i) /\ UNCHANGED <<calcVars, scoreVars, sanVars, reportVars, pushVars>>
    \/ \E i \in 1..Len(future) :
          TaskFinish(i) /\ UNCHANGED <<calcVars, scoreVars, sanVars, reportVars, pushVars>>
    \/ \E i \in 1..Len(future) :
          TaskRaise(i) /\ UNCHANGED <<calcVars, scoreVars, sanVars, reportVars, pushVars>>
    \/ \E i \in 1..Len(future) :
          Drain(i) /\ UNCHANGED <<calcVars, scoreVars, sanVars, reportVars, pushVars>>
    \/ SortAndReturn /\ UNCHANGED <<calcVars, scoreVars, sanVars, reportVars, pushVars>>

Spec == Init /\ [][Next]_vars

\* the symbol lists of the scans checked for termination
MaxLiveSymbols == 2

LiveSymbolLists ==
    {SubSeq(Universe, 1, n) : n \in 0..MaxLiveSymbols} \cup {<<"AAA", "AAA">>}

InitLive ==
    /\ Init
    /\ symbols \in LiveSymbolLists

Frame == UNCHANGED <<calcVars, scoreVars, sanVars, reportVars, pushVars>>

\* the main thread keeps running, a free worker takes a queued task, and
\* every task that runs ends, by a return or by an exception
Fairness ==
    /\ WF_vars(Submit /\ Frame)
    /\ WF_vars(BeginDrain /\ Frame)
    /\ WF_vars(SortAndReturn /\ Frame)
    /\ \A i \in 1..(MaxLiveSymbols + 1) :
          /\ WF_vars(i <= Len(future) /\ TaskStart(i) /\ Frame)
          /\ WF_vars(i <= Len(future) /\ (TaskFinish(i) \/ TaskRaise(i))
                         /\ Frame)
          /\ WF_vars(i <= Len(future) /\ Drain(i) /\ Frame)

SpecLive == InitLive /\ [][Next]_vars /\ Fairness

InitCalcSpec ==
    /\ InitCalc
    /\ IdleScan
    /\ IdleScore
    /\ IdleSanitize
    /\ IdleReport
    /\ IdlePush

NextCalc == Calculate /\ UNCHANGED <<scanVars, scoreVars, sanVars, reportVars, pushVars>>

SpecCalc == InitCalcSpec /\ [][NextCalc]_vars

InitWeeksSpec ==
    /\ InitWeeks
    /\ IdleScan
    /\ IdleScore
    /\ IdleSanitize
    /\ IdleReport
    /\ IdlePush

NextWeeks ==
    NextWeek /\ UNCHANGED <<scanVars, scoreVars, sanVars, reportVars, pushVars>>

SpecWeeks == InitWeeksSpec /\ [][NextWeeks]_vars

InitScoreSpec ==
    /\ InitScore
    /\ IdleScan
    /\ IdleCalc
    /\ IdleSanitize
    /\ IdleReport
    /\ IdlePush

NextScore == Score /\ UNCHANGED <<scanVars, calcVars, sanVars, reportVars, pushVars>>

SpecScore == InitScoreSpec /\ [][NextScore]_vars

InitSanitizeSpec ==
    /\ InitSanitize
    /\ IdleScan
    /\ IdleCalc
    /\ IdleScore
    /\ IdleReport
    /\ IdlePush

NextSanitize ==
    \/ Sanitize /\ UNCHANGED <<scanVars, calcVars, scoreVars, reportVars, pushVars>>
    \/ SanitizeAgain /\ UNCHANGED <<scanVars, calcVars, scoreVars, reportVars, pushVars>>

SpecSanitize == InitSanitizeSpec /\ [][NextSanitize]_vars

InitReportSpec ==
    /\ InitReport
    /\ InitPush
    /\ IdleCalc
    /\ IdleScore
    /\ IdleSanitize

NextReport ==
    \/ RunScan /\ UNCHANGED <<calcVars, scoreVars, sanVars, pushVars>>
    \/ Rankings /\ UNCHANGED <<calcVars, scoreVars, sanVars, pushVars>>
    \/ NoRankings /\ UNCHANGED <<calcVars, scoreVars, sanVars, pushVars>>
    \/ NoAirtable /\ UNCHANGED <<calcVars, scoreVars, sanVars, pushVars>>
    \/ EmailScores /\ UNCHANGED <<calcVars, scoreVars, sanVars, pushVars>>
    \/ SingleStock /\ UNCHANGED <<calcVars, scoreVars, sanVars, pushVars>>
    \/ SingleDone /\ UNCHANGED <<calcVars, scoreVars, sanVars, pushVars>>
    \/ PushBegin /\ UNCHANGED <<calcVars, scoreVars, sanVars>>
    \/ FetchPage /\ UNCHANGED <<calcVars, scoreVars, sanVars>>
    \/ PushSignal /\ UNCHANGED <<calcVars, scoreVars, sanVars>>
    \/ PushRemaining /\ UNCHANGED <<calcVars, scoreVars, sanVars>>

SpecReport == InitReportSpec /\ [][NextReport]_vars

InitPushSpec ==
    /\ InitPushOnly
    /\ IdleCalc
    /\ IdleScore
    /\ IdleSanitize

NextPush ==
    \/ PushBegin /\ UNCHANGED <<calcVars, scoreVars, sanVars>>
    \/ FetchPage /\ UNCHANGED <<calcVars, scoreVars, sanVars>>
    \/ PushSignal /\ UNCHANGED <<calcVars, scoreVars, sanVars>>
    \/ PushRemaining /\ UNCHANGED <<calcVars, scoreVars, sanVars>>

SpecPush == InitPushSpec /\ [][NextPush]_vars


-----------------------------------------------------------------------------
(* Properties of the evaluator, checked under SpecCalc *)

Evaluated == verdict.kind = "verdict"

\* the squeeze_on series of the evaluated input and its last position
Sq == squeeze_on(df.bars)

Now == Len(df.bars)

\* consecutive compressed bars ending at position pos, counted without limit
RECURSIVE RunBack(_, _)
RunBack(sq, pos) ==
    IF pos < 1 THEN 0
    ELSE IF sq[pos] THEN 1 + RunBack(sq, pos - 1)
    ELSE 0

IsFireBucket(b) == b \in {"fired_green", "fired_red"}

\* C1 as stated: squeeze_fired is reported only with bars_in_squeeze >= 6;
\* compression that ends after fewer compressed bars is no fire.
C1_Original ==
    Evaluated =>
        /\ verdict.squeeze_fired => verdict.bars_in_squeeze >= ReadyBars
        /\ (Sq[Now - 1] /\ ~Sq[Now] /\ RunBack(Sq, Now - 1) < ReadyBars)
              => ~verdict.squeeze_fired

\* C1 amended: squeeze_fired carries no duration threshold.  It implies only
\* that at least one compressed bar was counted, and compression that ends
\* after fewer than 6 compressed bars (e.g. 4) is still reported as a fire
\* with that count and is bucketed as a fire.
C1_Amended ==
    Evaluated =>
        /\ verdict.squeeze_fired => verdict.bars_in_squeeze >= 1
        /\ (Sq[Now - 1] /\ ~Sq[Now] /\ RunBack(Sq, Now - 1) < ReadyBars)
              => /\ verdict.squeeze_fired
                 /\ verdict.bars_in_squeeze = RunBack(Sq, Now - 1)
                 /\ IsFireBucket(classify(verdict))

C1_Witness ==
    /\ Evaluated
    /\ verdict.squeeze_fired
    /\ verdict.bars_in_squeeze = 4
    /\ RunBack(Sq, Now - 1) = 4

\* C5: squeeze_fired holds exactly when the previous bar was in meaningful
\* compression and the current bar is not; a fired verdict never reports
\* squeeze_on.
C5_FiredIffReleased ==
    Evaluated =>
        /\ verdict.squeeze_fired <=>
              (squeeze_on_bar(df.bars[Now - 1]) /\ ~squeeze_on_bar(df.bars[Now]))
        /\ verdict.squeeze_fired => ~verdict.squeeze_on
        /\ verdict.squeeze_on = squeeze_on_bar(df.bars[Now])
        /\ verdict.prev_squeeze = squeeze_on_bar(df.bars[Now - 1])

C5_Witness ==
    /\ Evaluated
    /\ verdict.squeeze_fired
    /\ verdict.prev_squeeze
    /\ ~verdict.squeeze_on
    /\ squeeze_on_bar(df.bars[Now - 1])
    /\ ~squeeze_on_bar(df.bars[Now])

\* C6 as stated: without a fire the count starts at the bar before the
\* current one, with a fire one bar further back; ten compressed bars before
\* the release bar give 10.
C6_Original ==
    Evaluated =>
        /\ ~verdict.squeeze_fired =>
              verdict.bars_in_squeeze =
                  Min2(RunBack(Sq, Now - 1), LookbackStop)
        /\ verdict.squeeze_fired =>
              verdict.bars_in_squeeze =
                  Min2(RunBack(Sq, Now - 2), LookbackStop)
        /\ (~Sq[Now] /\ RunBack(Sq, Now - 1) = 10)
              => verdict.bars_in_squeeze = 10

\* C6 amended: without a fire the count starts at the current bar itself,
\* which is counted when it is compressed; with a fire it starts at the bar
\* immediately preceding the current bar.  Ten compressed bars before the
\* release bar give 10.  (Runs short of the lookback limit.)
C6_Amended ==
    Evaluated =>
        /\ (~verdict.squeeze_fired /\ RunBack(Sq, Now) <= LookbackStop - 2)
              => verdict.bars_in_squeeze = RunBack(Sq, Now)
        /\ (verdict.squeeze_fired /\ RunBack(Sq, Now - 1) <= LookbackStop - 2)
              => verdict.bars_in_squeeze = RunBack(Sq, Now - 1)
        /\ (~Sq[Now] /\ RunBack(Sq, Now - 1) = 10)
              => /\ verdict.squeeze_fired
                 /\ verdict.bars_in_squeeze = 10

C6_Witness ==
    /\ Evaluated
    /\ ~Sq[Now]
    /\ RunBack(Sq, Now - 1) = 10
    /\ verdict.squeeze_fired
    /\ verdict.bars_in_squeeze = 10

\* C7 as stated: with 50 or more consecutive compressed bars the count is 50,
\* with a fire and without, and it never exceeds 50.
C7_Original ==
    Evaluated =>
        /\ verdict.bars_in_squeeze <= LookbackStop
        /\ (~verdict.squeeze_fired /\ RunBack(Sq, Now) >= LookbackStop)
              => verdict.bars_in_squeeze = LookbackStop
        /\ (verdict.squeeze_fired /\ RunBack(Sq, Now - 1) >= LookbackStop)
              => verdict.bars_in_squeeze = LookbackStop

\* C7 amended: the backward loop visits offsets start_idx .. 49, so the
\* count never exceeds 49.  With 50 or more consecutive compressed bars it
\* is 49 when no fire is detected and 48 when a fire is detected; it never
\* reaches 50.
C7_Amended ==
    Evaluated =>
        /\ verdict.bars_in_squeeze <= LookbackStop - 1
        /\ verdict.squeeze_fired => verdict.bars_in_squeeze <= LookbackStop - 2
        /\ (~verdict.squeeze_fired /\ RunBack(Sq, Now) >= LookbackStop)
              => verdict.bars_in_squeeze = LookbackStop - 1
        /\ (verdict.squeeze_fired /\ RunBack(Sq, Now - 1) >= LookbackStop)
              => verdict.bars_in_squeeze = LookbackStop - 2

C7_Witness ==
    /\ Evaluated
    /\ ~verdict.squeeze_fired
    /\ RunBack(Sq, Now) >= LookbackStop
    /\ verdict.bars_in_squeeze = LookbackStop - 1

\* C8: ready holds exactly when the current bar is in meaningful compression
\* and bars_in_squeeze >= 6; ready implies squeeze_on, ready and
\* squeeze_fired are never both true, and a compressed verdict with 8 bars
\* and no release goes to the ready bucket, not to a fired bucket.
C8_ReadyIffCompressedSixBars ==
    Evaluated =>
        /\ verdict.ready <=>
              (squeeze_on_bar(df.bars[Now])
                  /\ verdict.bars_in_squeeze >= ReadyBars)
        /\ verdict.ready => verdict.squeeze_on
        /\ ~(verdict.ready /\ verdict.squeeze_fired)
        /\ (verdict.squeeze_on /\ verdict.bars_in_squeeze = 8)
              => /\ verdict.ready
                 /\ classify(verdict) = "ready_to_fire"

C8_Witness ==
    /\ Evaluated
    /\ verdict.squeeze_on
    /\ verdict.bars_in_squeeze = 8
    /\ verdict.ready
    /\ classify(verdict) = "ready_to_fire"

\* C9: fire_direction is set exactly when squeeze_fired is true; it is GREEN
\* exactly when the current momentum is > 0 and RED otherwise, also for a
\* momentum of 0 and for an undefined momentum.
C9_FireDirection ==
    Evaluated =>
        LET current_mom == df.bars[Now].mom
        IN  /\ (verdict.fire_direction \in {"GREEN", "RED"})
                  <=> verdict.squeeze_fired
            /\ ~verdict.squeeze_fired => verdict.fire_direction = "None"
            /\ verdict.squeeze_fired =>
                  /\ (verdict.fire_direction = "GREEN")
                        <=> (~isna(current_mom) /\ current_mom > 0)
                  /\ (isna(current_mom) \/ current_mom <= 0)
                        => verdict.fire_direction = "RED"

C9_Witness ==
    /\ Evaluated
    /\ verdict.squeeze_fired
    /\ df.bars[Now].mom = 0
    /\ verdict.fire_direction = "RED"

-----------------------------------------------------------------------------
(* Properties of the scan, checked under Spec *)

Occ(b, r) == Cardinality({k \in 1..Len(b) : b[k] = r})

DrainedWith(r) ==
    Cardinality({i \in 1..Len(future) :
                    future[i].drained /\ future[i].result = r})

IsVerdict(r) == r.kind = "verdict"

\* same members with the same multiplicities
Perm(a, b) ==
    /\ Len(a) = Len(b)
    /\ \A k \in 1..Len(a) : Occ(a, a[k]) = Occ(b, a[k])

\* the four buckets obtained when the futures are drained in the order of
\* submission
Results == [i \in 1..Len(future) |-> future[i].result]

RefBucket(name, field, reverse) ==
    list_sort(SelectSeq(Results, LAMBDA r : drain_outcome(r) = name),
              field, reverse)

KeyOf(x, field) ==
    IF field = "momentum" THEN x.momentum ELSE x.bars_in_squeeze

NoTies(b, field) ==
    \A k, l \in 1..Len(b) : k # l => KeyOf(b[k], field) # KeyOf(b[l], field)

\* C2 as stated: for a fixed symbol -> verdict mapping the four buckets have
\* the same contents and the same order for every completion order, also
\* when two verdicts of a bucket have equal sort keys.
C2_Original ==
    pc = "done" =>
        /\ fired_green = RefBucket("fired_green", "momentum", TRUE)
        /\ fired_red = RefBucket("fired_red", "momentum", FALSE)
        /\ ready_to_fire = RefBucket("ready_to_fire", "bars_in_squeeze", TRUE)
        /\ in_squeeze = RefBucket("in_squeeze", "momentum", TRUE)

\* C2 amended: for a fixed symbol -> verdict mapping the four buckets have
\* the same contents for every completion order, and the same order whenever
\* no two verdicts of the bucket have equal sort keys.
C2_Amended ==
    pc = "done" =>
        /\ Perm(fired_green, RefBucket("fired_green", "momentum", TRUE))
        /\ Perm(fired_red, RefBucket("fired_red", "momentum", FALSE))
        /\ Perm(ready_to_fire,
                RefBucket("ready_to_fire", "bars_in_squeeze", TRUE))
        /\ Perm(in_squeeze, RefBucket("in_squeeze", "momentum", TRUE))
        /\ NoTies(fired_green, "momentum")
              => fired_green = RefBucket("fired_green", "momentum", TRUE)
        /\ NoTies(fired_red, "momentum")
              => fired_red = RefBucket("fired_red", "momentum", FALSE)
        /\ NoTies(ready_to_fire, "bars_in_squeeze")
              => ready_to_fire =
                    RefBucket("ready_to_fire", "bars_in_squeeze", TRUE)
        /\ NoTies(in_squeeze, "momentum")
              => in_squeeze = RefBucket("in_squeeze", "momentum", TRUE)

C2_Witness ==
    /\ pc = "done"
    /\ Len(fired_green) = 2
    /\ NoTies(fired_green, "momentum")
    /\ Len(ready_to_fire) = 1
    /\ fired_green = RefBucket("fired_green", "momentum", TRUE)

\* C3: a task that raises or returns no result is skipped and is in no
\* bucket; every other task's verdict is in the bucket of its class; no
\* exception leaves the scan.
C3_FailureIsolation ==
    /\ ~raised
    /\ \A i \in 1..Len(future) :
          future[i].drained =>
              LET r == future[i].result
                  total == Occ(fired_green, r) + Occ(fired_red, r)
                           + Occ(ready_to_fire, r) + Occ(in_squeeze, r)
              IN  /\ ~IsVerdict(r) => total = 0
                  /\ (IsVerdict(r) /\ classify(r) # "none") => total >= 1
    /\ Len(fired_green) + Len(fired_red) + Len(ready_to_fire) + Len(in_squeeze)
          = Cardinality({i \in 1..Len(future) :
                            /\ future[i].drained
                            /\ IsVerdict(future[i].result)
                            /\ classify(future[i].result) # "none"})
    /\ pc = "done" => \A i \in 1..Len(future) : future[i].drained

C3_Witness ==
    /\ pc = "done"
    /\ ~raised
    /\ \E i, j, k \in 1..Len(future) :
          /\ future[i].result = TaskException
          /\ future[j].result = None
          /\ IsVerdict(future[k].result)
          /\ Occ(fired_green, future[k].result) = 1

\* C4: every drained verdict is in at most one bucket, chosen by the
\* precedence fired -> ready -> in compression -> none.
C4_Classification ==
    \A i \in 1..Len(future) :
        (future[i].drained /\ IsVerdict(future[i].result)) =>
            LET r == future[i].result
                n == DrainedWith(r)
                green == r.squeeze_fired /\ r.fire_direction = "GREEN"
                red == r.squeeze_fired /\ r.fire_direction # "GREEN"
                rdy == ~r.squeeze_fired /\ r.ready
                insq == ~r.squeeze_fired /\ ~r.ready /\ r.squeeze_on
            IN  /\ Occ(fired_green, r) = IF green THEN n ELSE 0
                /\ Occ(fired_red, r) = IF red THEN n ELSE 0
                /\ Occ(ready_to_fire, r) = IF rdy THEN n ELSE 0
                /\ Occ(in_squeeze, r) = IF insq THEN n ELSE 0

C4_Witness ==
    /\ pc = "done"
    /\ Len(fired_red) = 1
    /\ Len(ready_to_fire) = 1
    /\ Len(in_squeeze) = 1

IsSorted(b, field, reverse) ==
    \A k \in 1..(Len(b) - 1) :
        IF reverse
        THEN KeyOf(b[k], field) >= KeyOf(b[k + 1], field)
        ELSE KeyOf(b[k], field) <= KeyOf(b[k + 1], field)

\* C10: the step that ends the scan leaves fired_green by momentum
\* non-increasing, fired_red by momentum non-decreasing, ready_to_fire by
\* bars_in_squeeze non-increasing and in_squeeze by momentum non-increasing,
\* each bucket keeping exactly its members.
C10_SortedBuckets ==
    [][(pc = "drain" /\ pc' = "done") =>
          /\ IsSorted(fired_green', "momentum", TRUE)
          /\ IsSorted(fired_red', "momentum", FALSE)
          /\ IsSorted(ready_to_fire', "bars_in_squeeze", TRUE)
          /\ IsSorted(in_squeeze', "momentum", TRUE)
          /\ Perm(fired_green, fired_green')
          /\ Perm(fired_red, fired_red')
          /\ Perm(ready_to_fire, ready_to_fire')
          /\ Perm(in_squeeze, in_squeeze')]_vars

C10_Witness ==
    /\ pc = "done"
    /\ Len(fired_green) = 2
    /\ fired_green[1].momentum > fired_green[2].momentum
    /\ Len(in_squeeze) = 1

-----------------------------------------------------------------------------
(* Properties of the scorer, checked under SpecScore *)

Scored == score.kind = "score"

\* C11: the score lies in [0, 100] and each sub-score within its cap:
\* momentum in [0, 40], acceleration, duration and weekly confirmation in
\* [0, 20].
C11_ScoreWithinCaps ==
    Scored =>
        /\ score.value >= 0
        /\ score.value <= 100 * ScoreScale
        /\ mom_score(stock) >= 0 /\ mom_score(stock) <= 40 * ScoreScale
        /\ accel_score(stock) >= 0 /\ accel_score(stock) <= 20 * ScoreScale
        /\ bars_score(stock) >= 0 /\ bars_score(stock) <= 20 * ScoreScale
        /\ weekly_score(stock) >= 0 /\ weekly_score(stock) <= 20 * ScoreScale
        /\ score.value = mom_score(stock) + accel_score(stock)
                         + bars_score(stock) + weekly_score(stock)

C11_Witness ==
    /\ Scored
    /\ stock.momentum = -35
    /\ stock.momentum_accel = -6
    /\ stock.bars_in_squeeze = 3
    /\ score.value > 40 * ScoreScale
    /\ score.value < 100 * ScoreScale

\* C12: with |momentum| >= 30, momentum_accel >= 5, bars_in_squeeze >= 12
\* and |weekly_change_pct| >= 10 the score is exactly 100; a negative
\* acceleration contributes 0.
C12_Saturation ==
    Scored =>
        /\ (/\ Abs(stock.momentum) >= 30
            /\ stock.momentum_accel >= 5
            /\ stock.bars_in_squeeze >= 12
            /\ Abs(stock.weekly_change_pct) >= 10)
              => score.value = 100 * ScoreScale
        /\ stock.momentum_accel < 0 =>
              score.value = calculate_sunday_score(
                                [stock EXCEPT !.momentum_accel = 0])

C12_Witness ==
    /\ Scored
    /\ stock.momentum = 35
    /\ stock.momentum_accel = 6
    /\ stock.bars_in_squeeze = 12
    /\ stock.weekly_change_pct = 12
    /\ score.value = 100 * ScoreScale

-----------------------------------------------------------------------------
(* Aggregation and scan-level failure, checked under Spec *)

Buckets == <<fired_green, fired_red, ready_to_fire, in_squeeze>>

TotalBucketed ==
    Len(fired_green) + Len(fired_red) + Len(ready_to_fire) + Len(in_squeeze)

\* C15: the four buckets and the completed counter change only in steps of
\* the orchestrator's drain loop; a step in which a worker task starts or
\* ends leaves them alone, and every drained future adds at most one entry.
C15_AggregationDiscipline ==
    [][LET workerStep ==
               /\ Len(future') = Len(future)
               /\ \E i \in 1..Len(future) : future'[i].state # future[i].state
           drainStep ==
               /\ Len(future') = Len(future)
               /\ \E i \in 1..Len(future) :
                     ~future[i].drained /\ future'[i].drained
       IN  /\ workerStep =>
                 /\ Buckets' = Buckets
                 /\ completed' = completed
           /\ (Buckets' # Buckets \/ completed' # completed) =>
                 /\ pc = "drain"
                 /\ ~workerStep
           /\ drainStep =>
                 /\ completed' = completed + 1
                 /\ TotalBucketed' \in {TotalBucketed, TotalBucketed + 1}]_vars

C15_Witness ==
    /\ pc = "drain"
    /\ Cardinality(Running) = 2
    /\ Len(fired_green) = 1
    /\ completed = 1

\* C16 as stated: a scan of an empty symbol list, or one in which no symbol
\* yields a result, ends as a scan-level failure and not as a normal return
\* of four empty buckets.
C16_EmptyScanFails ==
    (/\ pc = "done"
     /\ \A i \in 1..Len(future) : future[i].result.kind # "verdict")
        => raised

-----------------------------------------------------------------------------
(* Insufficient data, checked under SpecCalc *)

\* C17: the evaluator returns no result exactly when the series is missing
\* or has fewer than max(bb_length, kc_length, mom_length) + 5 bars (25), and
\* a verdict for every series of at least that length.
C17_InsufficientData ==
    verdict # Pending =>
        LET required ==
                Max2(Max2(bb_length, kc_length), mom_length) + 5
            short == df = None \/ Len(df.bars) < required
        IN  /\ required = 25
            /\ (verdict = None) <=> short
            /\ ~short => verdict.kind = "verdict"

C17_Witness ==
    /\ df # None
    /\ Len(df.bars) = 24
    /\ verdict = None

-----------------------------------------------------------------------------
(* Properties of sanitize_number, checked under SpecSanitize *)

IsFinite(x) == x.t = "float" /\ x.k = "fin"

\* the number a value stands for, if it stands for a finite one
ParsedValue(x) == IF x.t = "str" THEN float_of_str(x.s) ELSE x

StandsForFinite(x) ==
    /\ x.t \in {"int", "float", "str"}
    /\ ParsedValue(x) # ValueError
    /\ ParsedValue(x).k = "fin"

\* C18 as stated: the result is always a finite number; None, NaN, the
\* infinities, strings that parse to them, unparseable strings and other
\* types give 0.0, every other value is kept at 4 decimal places.
C18_NeverNonFinite ==
    sanitized # NotSanitized =>
        /\ IsFinite(sanitized)
        /\ ~StandsForFinite(val) => sanitized = PyFloat(0)
        /\ StandsForFinite(val) => sanitized.v % 10 = 0

\* C19 as stated: sanitizing a sanitized value returns it unchanged, also
\* for numeric strings of more than 4 decimal places, and None, NaN and the
\* infinities give 0.0.
C19_Idempotent ==
    resanitized # NotSanitized =>
        /\ resanitized = sanitized
        /\ val \in {PyNone, PyNaN, PyInf, PyNegInf} => sanitized = PyFloat(0)

-----------------------------------------------------------------------------
(* Properties of the scan's consumers, checked under SpecReport *)

ScanBuckets == <<fired_green, fired_red, ready_to_fire, in_squeeze>>

NoScoreIn(bucket) == \A k \in 1..Len(bucket) : ~has_score(bucket[k])

\* C13: a score is computed, shown or stored only for a GREEN fire: every
\* computation of a score is for a verdict that fired GREEN, and no verdict
\* of the fired_red, ready_to_fire or in_squeeze bucket holds a score.
C13_ScoreOnlyForGreenFires ==
    /\ \A e \in score_log : e.squeeze_fired /\ e.fire_direction = "GREEN"
    /\ NoScoreIn(fired_red)
    /\ NoScoreIn(ready_to_fire)
    /\ NoScoreIn(in_squeeze)

\* C14 as stated: every verdict of the fired_green bucket returned by the
\* scan holds a score, equal to its recomputation.
C14_Original ==
    rpc = "scanned" =>
        \A k \in 1..Len(fired_green) :
            /\ has_score(fired_green[k])
            /\ fired_green[k].sunday_score =
                   calculate_sunday_score(fired_green[k])

\* the run has gone through a consumer that stores scores
ScoresStored ==
    /\ rpc = "done"
    /\ \/ mode.prog = "email"
       \/ mode.prog = "main" /\ mode.sunday
       \/ mode.prog = "main" /\ ~mode.no_airtable /\ at_api

\* C14 (amended): neither the task nor the scan computes a score, so no
\* verdict returned by the scan holds one; a score is stored later by the
\* rankings, the push or the email run, every fired_green verdict holds one
\* once such a consumer has run, and a stored score equals the score
\* recomputed from the verdict.
C14_Amended ==
    /\ rpc = "scanned" =>
           \A b \in 1..4 : NoScoreIn(ScanBuckets[b])
    /\ \A k \in 1..Len(fired_green) :
           has_score(fired_green[k]) =>
               fired_green[k].sunday_score =
                   calculate_sunday_score(fired_green[k])
    /\ ScoresStored => \A k \in 1..Len(fired_green) : has_score(fired_green[k])

\* the rankings stored a score and the push met it again
C14_Witness ==
    /\ rpc = "done"
    /\ mode.prog = "main"
    /\ mode.sunday
    /\ requests # << >>
    /\ Len(fired_green) = 2
    /\ has_score(fired_green[1])
    /\ "signal" \in DOMAIN fired_green[1]

\* C20: a signal is sent by PATCH when its upper-cased ticker has a row in
\* the table and by POST otherwise; a ticker that has a row is never sent
\* by POST, whatever happened to the preliminary fetch.
C20_UpsertBySymbol ==
    \A i \in 1..Len(requests) :
        \A j \in 1..Len(requests[i].tickers) :
            (requests[i].method = "PATCH") <=>
                (requests[i].tickers[j] \in requests[i].present)

-----------------------------------------------------------------------------
(* Failure of a write and the selection of signals, checked under SpecReport *)

BucketSymbols ==
    [b \in 1..4 |-> [k \in 1..Len(ScanBuckets[b]) |-> ScanBuckets[b][k].symbol]]

PushRunning == rpc \in {"ranked", "fetch", "signals"}

FailedWrite(reqs) == \E i \in 1..Len(reqs) : ~reqs[i].ok

\* C21: when a PATCH or POST batch fails, the push reports the failure to
\* its caller, no exception unwinds the run, and the four buckets keep
\* their members in their order.
C21_SinkFailure ==
    [][PushRunning =>
          /\ ~raised'
          /\ BucketSymbols' = BucketSymbols
          /\ (rpc' = "done" /\ FailedWrite(requests')) => push_result' # None]_vars

SentTickers ==
    UNION {{requests[i].tickers[j] : j \in 1..Len(requests[i].tickers)} :
              i \in 1..Len(requests)}

SymbolsOf(bucket) == {upper(bucket[k].symbol) : k \in 1..Len(bucket)}

\* C22: the push sends a record for each element of fired_green and none
\* for a verdict of fired_red, ready_to_fire or in_squeeze.
C22_OnlyGreenSynced ==
    /\ SentTickers \subseteq SymbolsOf(fired_green)
    /\ SentTickers \cap SymbolsOf(fired_red) = {}
    /\ SentTickers \cap SymbolsOf(ready_to_fire) = {}
    /\ SentTickers \cap SymbolsOf(in_squeeze) = {}
    /\ (rpc = "done" /\ push_result = None /\ at_api) =>
           SentTickers = SymbolsOf(fired_green)

\* a push that sent the GREEN fire while another bucket was not empty
C22_Witness ==
    /\ rpc = "done"
    /\ requests # << >>
    /\ fired_green # << >>
    /\ fired_red # << >>

-----------------------------------------------------------------------------
(* Compression tiers and strictness of the band test, checked under SpecCalc. *)
(* The evaluator has one channel, at 1.2 times the smoothed range; the tier   *)
(* of a bar is the classification of the specification, by the three         *)
(* channels at 1.0, 1.2 and 1.5 times the range (tenths: 10, 12, 15).         *)

Tiers == {"NONE", "LOW", "MID", "HIGH"}

\* the band lies strictly inside the channel of the given width
InsideChannel(bar, multX10) ==
    /\ ~isna(bar.mid) /\ ~isna(bar.std) /\ ~isna(bar.atr)
    /\ 10 * bar.mid - 20 * bar.std > 10 * bar.mid - multX10 * bar.atr
    /\ 10 * bar.mid + 20 * bar.std < 10 * bar.mid + multX10 * bar.atr

TierHolds(bar, t) ==
    CASE t = "HIGH" -> InsideChannel(bar, 10)
      [] t = "MID" -> InsideChannel(bar, 12) /\ ~InsideChannel(bar, 10)
      [] t = "LOW" -> InsideChannel(bar, 15) /\ ~InsideChannel(bar, 12)
      [] OTHER -> ~InsideChannel(bar, 15)

meaningful_on(bar) == TierHolds(bar, "HIGH") \/ TierHolds(bar, "MID")

CurBar == iloc(df.bars, 1)

PrevBar == iloc(df.bars, 2)

BandsUndefined(bar) == isna(bar.mid) \/ isna(bar.std)

\* the band meets the channel: the two are centred on the same mean, so
\* the lower and the upper bounds meet together
BandTouches(bar) ==
    ~BandsUndefined(bar) /\ BbMultX10 * bar.std = KcMultX10 * bar.atr

\* C24: a bar whose band touches the channel (as on a constant price, where
\* both collapse onto the mean) or whose band is undefined is not in
\* compression.
C24_StrictlyInside ==
    df # None =>
        /\ \A bar \in {df.bars[i] : i \in 1..Len(df.bars)} :
              (BandTouches(bar) \/ BandsUndefined(bar)) => ~squeeze_on_bar(bar)
        /\ (Evaluated /\ BandTouches(CurBar)) =>
              ~verdict.squeeze_on /\ ~verdict.ready

\* a constant-price bar closes a compressed run: the verdict is a fire
C24_Witness ==
    /\ Evaluated
    /\ CurBar.std = 0
    /\ BandTouches(CurBar)
    /\ BandsUndefined(df.bars[1])
    /\ verdict.squeeze_fired

-----------------------------------------------------------------------------
(* Completion of the scan, checked under SpecLive *)

Drained == {i \in 1..Len(future) : future[i].drained}

\* the only moves of a task: queued to running, running to done
TaskMoves ==
    \A i \in 1..Len(future) :
        \/ future'[i].state = future[i].state
        \/ future[i].state = "queued" /\ future'[i].state = "running"
        \/ future[i].state = "running" /\ future'[i].state = "done"

\* C25: one task is submitted per input symbol; no task is cancelled or
\* taken back by what another task does; every future is drained once, and
\* the scan returns only when all are drained, with completed = total; and
\* if every task finishes, the scan returns.
C25_NoCancellationCompletion ==
    /\ [](pc # "submit" => Len(future) = Len(symbols))
    /\ [](completed = Cardinality(Drained))
    /\ [](pc = "done" =>
             /\ ~raised
             /\ completed = Len(symbols)
             /\ \A i \in 1..Len(future) :
                   future[i].state = "done" /\ future[i].drained)
    /\ [][/\ TaskMoves
          /\ \A i \in 1..Len(future) : future[i].drained => future'[i].drained
          /\ Len(future') >= Len(future)]_vars
    /\ <>(pc = "done")

\* a returned scan of two symbols in which one task raised
C25_Witness ==
    /\ pc = "done"
    /\ Len(symbols) = 2
    /\ completed = 2
    /\ \E i, j \in 1..Len(future) :
          /\ future[i].result = TaskException
          /\ IsVerdict(future[j].result)

-----------------------------------------------------------------------------
(* Membership of the buckets, checked under Spec *)

AllOf(bucket, P(_)) == \A k \in 1..Len(bucket) : P(bucket[k])

\* C26: every element of fired_green fired GREEN with momentum > 0; every
\* element of fired_red fired with momentum <= 0; every element of
\* ready_to_fire is in compression with at least 6 bars; every element of
\* in_squeeze is in compression, not fired, with fewer than 6 bars.
C26_BucketMembership ==
    /\ AllOf(fired_green,
             LAMBDA x : /\ x.squeeze_fired
                        /\ x.fire_direction = "GREEN"
                        /\ x.momentum > 0)
    /\ AllOf(fired_red, LAMBDA x : x.squeeze_fired /\ x.momentum <= 0)
    /\ AllOf(ready_to_fire, LAMBDA x : x.squeeze_on /\ x.bars_in_squeeze >= 6)
    /\ AllOf(in_squeeze,
             LAMBDA x : /\ x.squeeze_on
                        /\ ~x.squeeze_fired
                        /\ x.bars_in_squeeze < 6)

\* a returned scan with a fire at momentum 0, a ready and a compressed symbol
C26_Witness ==
    /\ pc = "done"
    /\ Len(fired_red) = 1
    /\ fired_red[1].momentum = 0
    /\ Len(ready_to_fire) = 1
    /\ Len(in_squeeze) = 1

-----------------------------------------------------------------------------
(* The verdict from one week to the next, checked under SpecWeeks *)

\* the bar is inside the evaluator's channel
Compressed(bar) == InsideChannel(bar, KcMultX10)

WeekStep == week' = week + 1

NewBar == iloc(df'.bars, 1)

\* C27 as stated: a verdict in compression with bars_in_squeeze = k is
\* followed, when the next bar is not compressed, by a fired verdict with
\* bars_in_squeeze = k.
C27_Original ==
    [][(WeekStep /\ Evaluated /\ verdict.squeeze_on /\ ~Compressed(NewBar)) =>
          /\ verdict'.kind = "verdict"
          /\ verdict'.squeeze_fired
          /\ verdict'.bars_in_squeeze = verdict.bars_in_squeeze]_vars

\* C27 (amended): the fired verdict of the next week has bars_in_squeeze = k
\* as long as k is at most 48; at k = 49, the most a verdict in compression
\* reports, the fired verdict reports 48.
C27_Amended ==
    [][(WeekStep /\ Evaluated /\ verdict.squeeze_on /\ ~Compressed(NewBar)) =>
          /\ verdict'.kind = "verdict"
          /\ verdict'.squeeze_fired
          /\ verdict'.bars_in_squeeze =
                 Min2(verdict.bars_in_squeeze, LookbackStop - 2)]_vars

\* the release of a run of 49 bars, reported as 48
C27_Witness ==
    /\ week >= 1
    /\ Evaluated
    /\ verdict.squeeze_fired
    /\ RunBack(Sq, Now - 1) = LookbackStop - 1
    /\ verdict.bars_in_squeeze = LookbackStop - 2

\* C28: squeeze_fired is true exactly on the first bar that is not
\* compressed after a compressed bar; it is never true on two consecutive
\* bars; and a further bar that is not compressed gives a verdict that is
\* not fired, not ready and not in compression, with bars_in_squeeze = 0.
C28_OneBarEvent ==
    [][(WeekStep /\ verdict'.kind = "verdict") =>
          /\ verdict'.squeeze_fired <=>
                (Compressed(iloc(df.bars, 1)) /\ ~Compressed(NewBar))
          /\ Evaluated => ~(verdict.squeeze_fired /\ verdict'.squeeze_fired)
          /\ (Evaluated /\ verdict.squeeze_fired /\ ~Compressed(NewBar)) =>
                /\ ~verdict'.squeeze_fired
                /\ ~verdict'.ready
                /\ ~verdict'.squeeze_on
                /\ verdict'.bars_in_squeeze = 0]_vars

\* the week after a fire, with a second bar that is not compressed
C28_Witness ==
    /\ week >= 2
    /\ Evaluated
    /\ Compressed(iloc(df.bars, 3))
    /\ ~Compressed(iloc(df.bars, 2))
    /\ ~Compressed(iloc(df.bars, 1))
    /\ ~verdict.squeeze_fired
    /\ verdict.bars_in_squeeze = 0

-----------------------------------------------------------------------------
(* Symbols of the buckets, checked under Spec *)

CountOf(bucket, sym) ==
    Cardinality({k \in 1..Len(bucket) : bucket[k].symbol = sym})

\* C29: whatever the symbol list, repeated symbols included, a symbol is in
\* at most one place of the four buckets.
C29_SymbolAtMostOnce ==
    \A i \in 1..Len(symbols) :
        CountOf(fired_green, symbols[i]) + CountOf(fired_red, symbols[i])
        + CountOf(ready_to_fire, symbols[i]) + CountOf(in_squeeze, symbols[i])
            <= 1

-----------------------------------------------------------------------------
(* Batching of the push, checked under SpecPush *)

TimesIn(seq, t) == Cardinality({j \in 1..Len(seq) : seq[j] = t})

RECURSIVE SumSeq(_)
SumSeq(seq) == IF seq = << >> THEN 0 ELSE Head(seq) + SumSeq(Tail(seq))

\* how often the ticker left in a request, and how often it waits in a batch
TimesSent(t) ==
    SumSeq([i \in 1..Len(requests) |-> TimesIn(requests[i].tickers, t)])

TimesWaiting(t) ==
    TimesIn([j \in 1..Len(update_batch) |-> update_batch[j].Ticker], t)
    + TimesIn([j \in 1..Len(create_batch) |-> create_batch[j].Ticker], t)

RecordsSent == SumSeq([i \in 1..Len(requests) |-> Len(requests[i].tickers)])

\* C30: every signal is put in one batch and sent once; no request holds
\* more than 10 records or none; at the end update_count + create_count is
\* the number of signals.
C30_Batching ==
    /\ \A i \in 1..Len(requests) :
          /\ Len(requests[i].tickers) >= 1
          /\ Len(requests[i].tickers) <= 10
    /\ update_count + create_count = RecordsSent
    /\ rpc = "signals" =>
          \A k \in 1..Len(fired_green) :
              LET t == upper(fired_green[k].symbol)
              IN  TimesSent(t) + TimesWaiting(t) = (IF k <= sig_idx THEN 1 ELSE 0)
    /\ (rpc = "done" /\ at_api) =>
          /\ \A k \in 1..Len(fired_green) :
                TimesSent(upper(fired_green[k].symbol)) = 1
          /\ update_count + create_count = Len(fired_green)

\* a push of 11 signals that sent a full batch of updates and one create
C30_Witness ==
    /\ rpc = "done"
    /\ Len(fired_green) = 11
    /\ Len(requests) = 2
    /\ requests[1].method = "PATCH"
    /\ Len(requests[1].tickers) = 10
    /\ requests[2].method = "POST"
    /\ update_count = 10
    /\ create_count = 1

====
